---- MODULE Spec2Model ----
(***************************************************************************)
(* Model of the Gantt chart renderer (gantt.py) and of the CSV to YAML     *)
(* converter (csv_to_yaml.py).                                             *)
(*                                                                         *)
(* Python values are tagged records [t, s, n]: t is the Python type, s the *)
(* characters of a str (a tuple of one-character strings), n the value of  *)
(* an int or the length of a list.  A dict is a function from its keys to  *)
(* values.  Half-integer coordinates are stored doubled (names end in 2).  *)
(***************************************************************************)
EXTENDS Integers, Sequences, FiniteSets, TLC

VARIABLES
    pc,         \* position of the running script or function
    defined,    \* gantt.py: module-level names bound so far
    args,       \* parsed command line
    files,      \* file system: the files the run reads and writes
    data,       \* the list of task records handed to the renderer
    accepted,   \* outcome of validate_data
    chart,      \* plotting primitives produced by create_gantt_chart
    conv,       \* csv_to_yaml.py: locals of convert_csv_to_yaml
    exitStatus  \* process exit status, -1 while running

vars == <<pc, defined, args, files, data, accepted, chart, conv, exitStatus>>

----------------------------------------------------------------------------
(* Bounds *)

MaxValLen == 2      \* longest list handed to validate_data
MaxValMonth == 2    \* largest month in the lists handed to validate_data
MaxRecs == 3        \* longest list of mixed records handed to the chart
MaxWpTasks == 3     \* most task records beside a colour-coded milestone
MaxMilestones == 5  \* most milestones in a list of milestones only
MaxCsvRows == 2     \* most data rows of the tasks CSV
MaxWords == 4       \* most words of a long milestone name
MaxOtherRecs == 2   \* longest list of records of any Type value

----------------------------------------------------------------------------
(* Python values *)

PyStr(s) == [t |-> "str", s |-> s, n |-> 0]
PyInt(n) == [t |-> "int", s |-> <<>>, n |-> n]
NoneV == [t |-> "None", s |-> <<>>, n |-> 0]
NaN == [t |-> "nan", s |-> <<>>, n |-> 0]
PyList(n) == [t |-> "list", s |-> <<>>, n |-> n]
PyBool(b) == [t |-> "bool", s |-> <<>>, n |-> IF b THEN 1 ELSE 0]

Whitespace == {" ", "\t", "\n"}

RECURSIVE LStrip(_)
LStrip(s) ==
    IF s # <<>> /\ Head(s) \in Whitespace THEN LStrip(Tail(s)) ELSE s

RECURSIVE RStrip(_)
RStrip(s) ==
    IF s # <<>> /\ s[Len(s)] \in Whitespace
    THEN RStrip(SubSeq(s, 1, Len(s) - 1))
    ELSE s

\* str.strip()
Strip(s) == RStrip(LStrip(s))

\* dict.get(key): None when the key is absent
Get(item, col) == IF col \in DOMAIN item THEN item[col] ELSE NoneV

\* a list item that is not a mapping (a YAML scalar)
NotADict == [k \in {"<scalar>"} |-> PyInt(0)]

IsDict(item) == item # NotADict

----------------------------------------------------------------------------
(* gantt.py: validate_data *)

required_columns == <<"Task", "Work Package", "Start", "End", "Type">>

RequiredSet == {required_columns[i] : i \in 1..Len(required_columns)}

\* the chain of tests validate_data applies to one value
IsMissingValue(value) ==
    IF value.t = "None" THEN TRUE
    ELSE IF value.t = "str" THEN Strip(value.s) = <<>>
    ELSE IF value.t = "list" THEN value.n = 0
    ELSE value.t = "nan"

\* (row, column) pairs in the order the nested loops visit them
MissingCellsFirstRow(d) ==
    {rc \in {1} \X (1..Len(required_columns)) :
        IsMissingValue(Get(d[rc[1]], required_columns[rc[2]]))}

MissingCells(d) ==
    {rc \in (1..Len(d)) \X (1..Len(required_columns)) :
        IsMissingValue(Get(d[rc[1]], required_columns[rc[2]]))}

FirstCell(cells) ==
    CHOOSE rc \in cells :
        \A o \in cells : rc[1] < o[1] \/ (rc[1] = o[1] /\ rc[2] <= o[2])

Accept == [ok |-> TRUE, err |-> "", row |-> 0, col |-> ""]
Raise(e, r, c) == [ok |-> FALSE, err |-> e, row |-> r, col |-> c]

validate_data(d) ==
    IF d = <<>> THEN Raise("No data loaded", 0, "")
    ELSE IF \E i \in 1..Len(d) : ~IsDict(d[i])
    THEN Raise("Data must be a list of dictionaries", 0, "")
    ELSE IF RequiredSet \ DOMAIN d[1] # {}
    THEN Raise("Missing required columns", 0, "")
    ELSE IF MissingCells(d) # {}
    THEN Raise("Missing value for column", FirstCell(MissingCells(d))[1],
               required_columns[FirstCell(MissingCells(d))[2]])
    ELSE Accept

NotRun == [ok |-> FALSE, err |-> "not run", row |-> 0, col |-> ""]


----------------------------------------------------------------------------
(* Strings the programs use *)

TaskStr == <<"T", "a", "s", "k">>
MilestoneStr == <<"M", "i", "l", "e", "s", "t", "o", "n", "e">>

ColTask == "Task"
ColWP == "Work Package"
ColStart == "Start"
ColEnd == "End"
ColType == "Type"
ColRelated == "Related WPs"

\* a task record as a dict
Rec(task, wp, start, end, type) ==
    [k \in RequiredSet |->
        CASE k = ColTask -> task
          [] k = ColWP -> wp
          [] k = ColStart -> start
          [] k = ColEnd -> end
          [] OTHER -> type]

\* the dict without one key
Without(item, col) == [k \in (DOMAIN item) \ {col} |-> item[k]]

\* the dict with one key set
With(item, col, value) ==
    [k \in (DOMAIN item) \cup {col} |-> IF k = col THEN value ELSE item[k]]

\* all lists of at most n elements of S
ListsUpTo(S, n) == UNION {[1..k -> S] : k \in 0..n}

----------------------------------------------------------------------------
(* Inputs of validate_data: records with months in 0..2 in any order, and  *)
(* records with one field absent or holding a value of another shape.      *)

ValMonths == 0..MaxValMonth

ValBase(a, b) ==
    Rec(PyStr(<<"a">>), PyStr(<<"W">>), PyInt(a), PyInt(b), PyStr(TaskStr))

OddValues ==
    {NoneV, NaN, PyStr(<<>>), PyStr(<<" ">>), PyStr(<<"\t", " ">>),
     PyList(0), PyList(1), PyInt(0)}

ValRecords ==
    {ValBase(a, b) : a \in ValMonths, b \in ValMonths}
    \cup {Without(ValBase(1, 2), c) : c \in RequiredSet}
    \cup {With(ValBase(1, 2), c, v) : c \in RequiredSet, v \in OddValues}
    \cup {NotADict}

ValInputs == ListsUpTo(ValRecords, MaxValLen)

NoChart == [drawn |-> FALSE]
NoArgs == [prog |-> "none"]
NoConv == [run |-> FALSE]

InitValidate ==
    /\ pc = "validate_data"
    /\ defined = {}
    /\ args = NoArgs
    /\ files = <<>>
    /\ data \in ValInputs
    /\ accepted = NotRun
    /\ chart = NoChart
    /\ conv = NoConv
    /\ exitStatus = -1

\* one call of validate_data(data)
ValidateData ==
    /\ pc = "validate_data"
    /\ accepted' = validate_data(data)
    /\ pc' = "returned"
    /\ UNCHANGED <<defined, args, files, data, chart, conv, exitStatus>>

NextValidate == ValidateData

SpecValidate == InitValidate /\ [][NextValidate]_vars


----------------------------------------------------------------------------
(* Claims about validate_data *)

IsMonth(v) == v.t = "int"

\* C1 (as stated): every record of a list validate_data accepts has
\* Start <= End.
C1_AcceptedStartLeEnd ==
    (pc = "returned" /\ accepted.ok) =>
        \A i \in 1..Len(data) :
            (IsMonth(data[i][ColStart]) /\ IsMonth(data[i][ColEnd])) =>
                data[i][ColStart].n <= data[i][ColEnd].n

\* what the claim calls an empty value: None, a blank or whitespace-only
\* string, an empty sequence, NaN
EmptyValue(v) ==
    \/ v.t = "None"
    \/ v.t = "str" /\ \A j \in 1..Len(v.s) : v.s[j] \in Whitespace
    \/ v.t = "list" /\ v.n = 0
    \/ v.t = "nan"

CompleteRecord(item) ==
    /\ IsDict(item)
    /\ \A c \in RequiredSet : c \in DOMAIN item /\ ~EmptyValue(item[c])

\* C2: validate_data accepts a list only if it is not empty and every
\* record, not just the first, has the five required fields present and
\* non-empty; it raises ValueError otherwise, and a record complete but for
\* fields holding the number 0 is accepted.
C2_ValidateRequiresAllFields ==
    pc = "returned" =>
        /\ accepted.ok =>
              data # <<>> /\ \A i \in 1..Len(data) : CompleteRecord(data[i])
        /\ (data = <<>> \/ \E i \in 1..Len(data) : ~CompleteRecord(data[i]))
              => ~accepted.ok /\ accepted.err # "not run"
        /\ (data # <<>> /\ \A i \in 1..Len(data) : CompleteRecord(data[i]))
              => accepted.ok

\* C2 witness: the second record lacks a key the first record has, and the
\* call raised for that row and column.
C2_Witness ==
    /\ pc = "returned"
    /\ Len(data) = 2
    /\ CompleteRecord(data[1])
    /\ IsDict(data[2]) /\ ColEnd \notin DOMAIN data[2]
    /\ ~accepted.ok
    /\ accepted.row = 2 /\ accepted.col = ColEnd

----------------------------------------------------------------------------
(* gantt.py: create_gantt_chart *)

\* characters in code-point order, for str comparison
CodePoints ==
    <<"\t", "\n", " ", ",", "-", "0", "1", "2", "3", "4", "5", "6", "7",
      "8", "9", ":", "A", "B", "C", "D", "E", "F", "G", "H", "I", "J", "K",
      "L", "M", "N", "O", "P", "Q", "R", "S", "T", "U", "V", "W", "X", "Y",
      "Z", "a", "b", "c", "d", "e", "f", "g", "h", "i", "j", "k", "l", "m",
      "n", "o", "p", "q", "r", "s", "t", "u", "v", "w", "x", "y", "z">>

Ord(c) == CHOOSE i \in 1..Len(CodePoints) : CodePoints[i] = c

\* s < t for two str
RECURSIVE StrLess(_, _)
StrLess(s, t) ==
    IF t = <<>> THEN FALSE
    ELSE IF s = <<>> THEN TRUE
    ELSE IF Head(s) = Head(t) THEN StrLess(Tail(s), Tail(t))
    ELSE Ord(Head(s)) < Ord(Head(t))

\* sub in full, for two str
Contains(sub, full) ==
    \E i \in 0..(Len(full) - Len(sub)) : SubSeq(full, i + 1, i + Len(sub)) = sub

\* str.split(","): the pieces between the commas
RECURSIVE SplitComma(_)
SplitComma(s) ==
    IF \A i \in 1..Len(s) : s[i] # ","
    THEN <<s>>
    ELSE LET i == CHOOSE k \in 1..Len(s) :
                      s[k] = "," /\ \A j \in 1..(k - 1) : s[j] # ","
         IN <<SubSeq(s, 1, i - 1)>> \o SplitComma(SubSeq(s, i + 1, Len(s)))

Digit(n) == CodePoints[6 + n]

\* str(n) for an int n >= 0
RECURSIVE IntToStr(_)
IntToStr(n) == IF n < 10 THEN <<Digit(n)>> ELSE IntToStr(n \div 10) \o <<Digit(n % 10)>>

\* str(value) of a cell
ToStr(v) == IF v.t = "str" THEN v.s ELSE IntToStr(v.n)

\* a DataFrame cell: NaN where the record has no such key
Cell(item, col) == IF col \in DOMAIN item THEN item[col] ELSE NaN

\* pd.notna
NotNa(v) == v.t # "None" /\ v.t # "nan"

Idx(d) == [i \in 1..Len(d) |-> i]

RECURSIVE ConcatAll(_)
ConcatAll(seqs) == IF seqs = <<>> THEN <<>> ELSE Head(seqs) \o ConcatAll(Tail(seqs))

RECURSIVE SumLen(_)
SumLen(seqs) == IF seqs = <<>> THEN 0 ELSE Len(Head(seqs)) + SumLen(Tail(seqs))

\* df[df["Type"] == "Task"]: the rows, by index, in input order
TaskRows(d) == SelectSeq(Idx(d), LAMBDA i : Cell(d[i], ColType) = PyStr(TaskStr))

\* the rows with Start equal to End
ZeroDurationRows(d) ==
    SelectSeq(Idx(d), LAMBDA i : Cell(d[i], ColStart) = Cell(d[i], ColEnd))

\* df[df["Type"] == "Milestone"]
MilestoneRows(d) ==
    SelectSeq(Idx(d), LAMBDA i : Cell(d[i], ColType) = PyStr(MilestoneStr))

\* the work packages of the Task records only, in order of first appearance
WorkPackagesOfTasks(d) ==
    LET rows == SelectSeq(Idx(d), LAMBDA i : Cell(d[i], ColType) = PyStr(TaskStr))
        first == SelectSeq(rows, LAMBDA i :
                     \A j \in 1..(i - 1) :
                         Cell(d[j], ColType) = PyStr(TaskStr)
                             => Cell(d[j], ColWP) # Cell(d[i], ColWP))
    IN [k \in 1..Len(first) |-> Cell(d[first[k]], ColWP)]

\* df["Work Package"].unique(): the values in order of first appearance
WorkPackages(d) ==
    LET first == SelectSeq(Idx(d), LAMBDA i :
                     \A j \in 1..(i - 1) : Cell(d[j], ColWP) # Cell(d[i], ColWP))
    IN [k \in 1..Len(first) |-> Cell(d[first[k]], ColWP)]

Set3Size == 12

Min(a, b) == IF a < b THEN a ELSE b

\* plt.cm.Set3(np.linspace(0, 1, n))[k]: the palette entry of the k-th of n
\* work packages (k from 0)
Set3Index(k, n) ==
    IF n = 1 THEN 0 ELSE Min(Set3Size - 1, (Set3Size * k) \div (n - 1))

Gray == Set3Size    \* the colour "gray", outside the palette

\* wp_colors: work package -> colour, in insertion order
WpColors(d) ==
    LET wps == WorkPackages(d)
    IN [k \in 1..Len(wps) |-> [wp |-> wps[k], color |-> Set3Index(k - 1, Len(wps))]]

\* tasks[tasks["Work Package"] == wp] for each work package, in order
WpTaskRows(d) ==
    LET wps == WorkPackages(d)
    IN [k \in 1..Len(wps) |->
           SelectSeq(TaskRows(d), LAMBDA i : Cell(d[i], ColWP) = wps[k])]

\* the bars of one loop over the tasks in input order
BarsInInputOrder(d) ==
    LET rows == TaskRows(d)
        colors == WpColors(d)
        colorOf(wp) == (CHOOSE e \in {colors[k] : k \in 1..Len(colors)} : e.wp = wp).color
    IN [y1 \in 1..Len(rows) |->
           [y |-> y1 - 1,
            rec |-> rows[y1],
            left |-> d[rows[y1]][ColStart].n,
            width |-> d[rows[y1]][ColEnd].n - d[rows[y1]][ColStart].n,
            color |-> colorOf(Cell(d[rows[y1]], ColWP)),
            textInside |-> 2 * (d[rows[y1]][ColEnd].n - d[rows[y1]][ColStart].n) >= 1]]

\* the bars of the loop over work_packages; bar y is drawn on row y
Bars(d) ==
    LET groups == WpTaskRows(d)
        colors == WpColors(d)
        rows == ConcatAll(groups)
        wpOf(y) == CHOOSE k \in 1..Len(groups) :
                      /\ SumLen(SubSeq(groups, 1, k - 1)) < y
                      /\ y <= SumLen(SubSeq(groups, 1, k))
    IN [y1 \in 1..Len(rows) |->
           [y |-> y1 - 1,
            rec |-> rows[y1],
            left |-> d[rows[y1]][ColStart].n,
            width |-> d[rows[y1]][ColEnd].n - d[rows[y1]][ColStart].n,
            color |-> colors[wpOf(y1)].color,
            textInside |-> 2 * (d[rows[y1]][ColEnd].n - d[rows[y1]][ColStart].n) >= 1]]

\* wp_y_ranges, in insertion order: only work packages with a task
WpYRanges(d) ==
    LET groups == WpTaskRows(d)
        wps == WorkPackages(d)
        some == SelectSeq(Idx(groups), LAMBDA k : groups[k] # <<>>)
    IN [j \in 1..Len(some) |->
           [wp |-> wps[some[j]],
            start_y |-> SumLen(SubSeq(groups, 1, some[j] - 1)),
            end_y |-> SumLen(SubSeq(groups, 1, some[j])) - 1]]

\* the first work package, in insertion order, whose name contains the
\* identifier: its colour, or nothing
MatchColors(wp_name, colors) ==
    LET hits == SelectSeq(colors, LAMBDA e : Contains(wp_name, e.wp.s))
    IN IF hits = <<>> THEN <<>> ELSE <<Head(hits).color>>

\* milestone_colors for the identifiers of one Related WPs cell
MilestoneColors(cell, colors) ==
    LET pieces == SplitComma(ToStr(cell))
        related_wps == [k \in 1..Len(pieces) |-> Strip(pieces[k])]
    IN ConcatAll([k \in 1..Len(related_wps) |-> MatchColors(related_wps[k], colors)])

\* the stripes drawn between the autoscaled y limits, 0.2 units each: the
\* limits are 1.1 times the n bar rows, or (0, 1) without bars
NumStripes(n) == IF n = 0 THEN 5 ELSE (11 * n + 1) \div 2

\* one milestone's vertical marker: the colours of its lines, bottom up
MarkerLines(d, i) ==
    LET hasColumn == \E j \in 1..Len(d) : ColRelated \in DOMAIN d[j]
        cell == Cell(d[i], ColRelated)
        found == IF hasColumn /\ NotNa(cell)
                 THEN MilestoneColors(cell, WpColors(d))
                 ELSE <<>>
    IN IF Len(found) = 1 THEN <<found[1]>>
       ELSE IF Len(found) > 1
       THEN [k \in 1..NumStripes(Len(TaskRows(d))) |->
                found[((k - 1) % Len(found)) + 1]]
       ELSE <<Gray>>

Markers(d) ==
    LET rows == MilestoneRows(d)
    IN [k \in 1..Len(rows) |->
           [rec |-> rows[k],
            x |-> d[rows[k]][ColStart].n,
            lines |-> MarkerLines(d, rows[k])]]

\* tuple comparison of (Start_Month, Task)
PosLess(a, b) == a.x < b.x \/ (a.x = b.x /\ StrLess(a.name, b.name))

RECURSIVE InsertPos(_, _)
InsertPos(e, sorted) ==
    IF sorted = <<>> THEN <<e>>
    ELSE IF PosLess(e, Head(sorted)) THEN <<e>> \o sorted
    ELSE <<Head(sorted)>> \o InsertPos(e, Tail(sorted))

RECURSIVE SortPos(_)
SortPos(ps) ==
    IF ps = <<>> THEN <<>>
    ELSE InsertPos(ps[Len(ps)], SortPos(SubSeq(ps, 1, Len(ps) - 1)))

\* milestone_positions after the sort
MilestonePositions(d) ==
    LET rows == MilestoneRows(d)
    IN SortPos([k \in 1..Len(rows) |->
           [x |-> d[rows[k]][ColStart].n, name |-> ToStr(d[rows[k]][ColTask])]])

Abs(a) == IF a < 0 THEN -a ELSE a

CloseMonths == 4
LabelRows == 3

\* twice label_y of the i-th sorted milestone (i from 0): base_y is -1, the
\* base height base_y - 0.5, a staggered row base_y - row * 1.5
LabelY2(ps, i) ==
    IF i > 0 /\ Abs(ps[i + 1].x - ps[i].x) < CloseMonths
    THEN -2 - 3 * ((i % LabelRows) + 1)
    ELSE -3

WrapWidth == 20

\* str.split(): the words between runs of whitespace
RECURSIVE SplitWords(_)
SplitWords(s) ==
    IF s = <<>> THEN <<>>
    ELSE IF Head(s) \in Whitespace THEN SplitWords(Tail(s))
    ELSE IF \A i \in 1..Len(s) : s[i] \notin Whitespace THEN <<s>>
    ELSE LET i == CHOOSE k \in 1..Len(s) :
                      s[k] \in Whitespace /\ \A j \in 1..(k - 1) : s[j] \notin Whitespace
         IN <<SubSeq(s, 1, i - 1)>> \o SplitWords(SubSeq(s, i + 1, Len(s)))

\* the wrapping loop with the space left out of the length test
RECURSIVE WrapFromNoSpace(_, _, _)
WrapFromNoSpace(words, current_line, lines) ==
    IF words = <<>>
    THEN IF current_line # <<>> THEN Append(lines, current_line) ELSE lines
    ELSE IF current_line # <<>> /\ Len(current_line) + Len(Head(words)) > WrapWidth
    THEN WrapFromNoSpace(Tail(words), Head(words), Append(lines, current_line))
    ELSE IF current_line # <<>>
    THEN WrapFromNoSpace(Tail(words), current_line \o <<" ">> \o Head(words), lines)
    ELSE WrapFromNoSpace(Tail(words), Head(words), lines)

\* the loop over words: lines so far, and the line being filled
RECURSIVE WrapFrom(_, _, _)
WrapFrom(words, current_line, lines) ==
    IF words = <<>>
    THEN IF current_line # <<>> THEN Append(lines, current_line) ELSE lines
    ELSE IF current_line # <<>>
            /\ Len(current_line \o <<" ">> \o Head(words)) > WrapWidth
    THEN WrapFrom(Tail(words), Head(words), Append(lines, current_line))
    ELSE IF current_line # <<>>
    THEN WrapFrom(Tail(words), current_line \o <<" ">> \o Head(words), lines)
    ELSE WrapFrom(Tail(words), Head(words), lines)

\* "\n".join(lines)
RECURSIVE JoinLines(_)
JoinLines(lines) ==
    IF lines = <<>> THEN <<>>
    ELSE IF Len(lines) = 1 THEN lines[1]
    ELSE lines[1] \o <<"\n">> \o JoinLines(Tail(lines))

format_milestone_name(milestone_name) ==
    IF Len(milestone_name) <= WrapWidth THEN milestone_name
    ELSE JoinLines(WrapFrom(SplitWords(milestone_name), <<>>, <<>>))

\* "WP1: System Design" becomes "WP1\System Design": split(": ", 1)
RECURSIVE Backslashed(_)
Backslashed(wp_name) ==
    IF Len(wp_name) < 2 THEN wp_name
    ELSE IF wp_name[1] = ":" /\ wp_name[2] = " "
    THEN <<"\\">> \o SubSeq(wp_name, 3, Len(wp_name))
    ELSE <<Head(wp_name)>> \o Backslashed(Tail(wp_name))

format_wp_name(wp_name) ==
    LET formatted == Backslashed(wp_name)
    IN IF Len(formatted) <= WrapWidth THEN formatted
       ELSE JoinLines(WrapFrom(SplitWords(formatted), <<>>, <<>>))

\* label_y_positions, and the text drawn at each
Labels(d) ==
    LET ps == MilestonePositions(d)
    IN [k \in 1..Len(ps) |->
           [x |-> ps[k].x, y2 |-> LabelY2(ps, k - 1), name |-> ps[k].name,
            text |-> format_milestone_name(ps[k].name)]]

\* a brace drawn for every entry of wp_y_ranges, single rows included
WpLabelsAlwaysBrace(d) ==
    LET ranges == WpYRanges(d)
        colors == WpColors(d)
        colorOf(wp) == (CHOOSE e \in {colors[k] : k \in 1..Len(colors)} : e.wp = wp).color
    IN [j \in 1..Len(ranges) |->
           [wp |-> ranges[j].wp,
            text |-> format_wp_name(ToStr(ranges[j].wp)),
            color |-> colorOf(ranges[j].wp),
            y2 |-> ranges[j].start_y + ranges[j].end_y,
            brace |-> TRUE,
            top10 |-> 10 * ranges[j].start_y - 4,
            bottom10 |-> 10 * ranges[j].end_y + 4]]

\* the brace and label of each entry of wp_y_ranges: the label at the
\* midpoint (doubled), the brace from start_y - 0.4 to end_y + 0.4 (in tenths)
WpLabels(d) ==
    LET ranges == WpYRanges(d)
        colors == WpColors(d)
        colorOf(wp) == (CHOOSE e \in {colors[k] : k \in 1..Len(colors)} : e.wp = wp).color
    IN [j \in 1..Len(ranges) |->
           [wp |-> ranges[j].wp,
            text |-> format_wp_name(ToStr(ranges[j].wp)),
            color |-> colorOf(ranges[j].wp),
            y2 |-> ranges[j].start_y + ranges[j].end_y,
            brace |-> ranges[j].start_y # ranges[j].end_y,
            top10 |-> 10 * ranges[j].start_y - 4,
            bottom10 |-> 10 * ranges[j].end_y + 4]]

create_gantt_chart(d) ==
    [drawn |-> TRUE,
     bars |-> Bars(d),
     wp_y_ranges |-> WpYRanges(d),
     markers |-> Markers(d),
     labels |-> Labels(d),
     y_pos |-> Len(Bars(d)),
     ylim_set |-> Len(Bars(d)) > 0,
     wp_labels |-> WpLabels(d)]

----------------------------------------------------------------------------
(* Inputs of create_gantt_chart *)

WP1A == <<"W", "P", "1", ":", " ", "A">>
WP10B == <<"W", "P", "1", "0", ":", " ", "B">>
WP2C == <<"W", "P", "2", ":", " ", "C">>
MilestonesStr == MilestoneStr \o <<"s">>

WpNames == {WP1A, WP10B, WP2C}

\* mixed records: three work packages, both types, Start before, on and
\* after End
MixedRecords ==
    {Rec(PyStr(<<"t">>), PyStr(w), PyInt(se[1]), PyInt(se[2]), PyStr(ty)) :
        w \in WpNames, ty \in {TaskStr, MilestoneStr},
        se \in {<<1, 1>>, <<1, 3>>, <<3, 1>>}}

MixedInputs == ListsUpTo(MixedRecords, MaxRecs)

\* Related WPs cells: identifiers, lists of identifiers, None
RelatedCells ==
    {NoneV,
     PyStr(<<"W", "P", "1">>),
     PyStr(<<"W", "P", "1", "0">>),
     PyStr(<<"W", "P", "2">>),
     PyStr(<<"W", "P", "9">>),
     PyStr(<<"W", "P", "2", ",", " ", "W", "P", "1">>),
     PyStr(<<"W", "P", "1", ",", "W", "P", "2">>),
     PyStr(<<" ", "W", "P", "2", " ", ",", "W", "P", "9">>),
     PyStr(<<"W", "P", "9", ",", " ", "W", "P", "8">>)}

WpTask(w) == Rec(PyStr(<<"t">>), PyStr(w), PyInt(1), PyInt(3), PyStr(TaskStr))

PlainMilestone ==
    Rec(PyStr(<<"m">>), PyStr(MilestonesStr), PyInt(2), PyInt(2), PyStr(MilestoneStr))

ColourMilestones ==
    {PlainMilestone} \cup {With(PlainMilestone, ColRelated, c) : c \in RelatedCells}

\* one milestone before or after the tasks of some work packages
ColourInputs ==
    {ts \o <<m>> : ts \in ListsUpTo({WpTask(w) : w \in WpNames}, MaxWpTasks),
                   m \in ColourMilestones}
    \cup {<<m>> \o ts : ts \in ListsUpTo({WpTask(w) : w \in WpNames}, MaxWpTasks),
                        m \in ColourMilestones}

LabelMonths == {1, 2, 6}

LabelMilestones ==
    {Rec(PyStr(nm), PyStr(MilestonesStr), PyInt(x), PyInt(x), PyStr(MilestoneStr)) :
        nm \in {<<"a">>, <<"b">>}, x \in LabelMonths}

LabelInputs == ListsUpTo(LabelMilestones, MaxMilestones)

Rep(c, n) == [i \in 1..n |-> c]

\* words shorter than, next to and longer than the wrapping width
WrapWords == {Rep("a", 2), Rep("b", 9), Rep("c", 10), Rep("d", WrapWidth + 1)}

RECURSIVE JoinWords(_, _)
JoinWords(words, sep) ==
    IF words = <<>> THEN <<>>
    ELSE IF Len(words) = 1 THEN words[1]
    ELSE words[1] \o sep \o JoinWords(Tail(words), sep)

\* names of one to MaxWords words, separated by one or by two blanks
LongNames ==
    {JoinWords(ws, sep) : ws \in ListsUpTo(WrapWords, MaxWords) \ {<<>>},
                          sep \in {<<" ">>, <<" ", " ">>}}

\* one milestone with such a name
LongNameInputs ==
    {<<Rec(PyStr(nm), PyStr(MilestonesStr), PyInt(2), PyInt(2), PyStr(MilestoneStr))>> :
        nm \in LongNames}

\* a Type value that is neither "Task" nor "Milestone"
OtherTypeStr == <<"t", "a", "s", "k">>

OtherTypeRecords ==
    {Rec(PyStr(<<"t">>), PyStr(WP1A), PyInt(1), PyInt(e), PyStr(ty)) :
        e \in {1, 2}, ty \in {TaskStr, MilestoneStr, OtherTypeStr}}

\* records of any Type value
OtherTypeInputs == ListsUpTo(OtherTypeRecords, MaxOtherRecs)

ChartInputs ==
    MixedInputs \cup ColourInputs \cup LabelInputs \cup LongNameInputs
        \cup OtherTypeInputs

InitChart ==
    /\ pc = "create_gantt_chart"
    /\ defined = {}
    /\ args = NoArgs
    /\ files = <<>>
    /\ data \in ChartInputs \ {<<>>}
    /\ accepted = validate_data(data)
    /\ chart = NoChart
    /\ conv = NoConv
    /\ exitStatus = -1

\* one call of create_gantt_chart(data)
CreateGanttChart ==
    /\ pc = "create_gantt_chart"
    /\ chart' = create_gantt_chart(data)
    /\ pc' = "returned"
    /\ UNCHANGED <<defined, args, files, data, accepted, conv, exitStatus>>

NextChart == CreateGanttChart

SpecChart == InitChart /\ [][NextChart]_vars

----------------------------------------------------------------------------
(* Claims about create_gantt_chart *)

IsType(item, ty) == Cell(item, ColType) = PyStr(ty)

BarsOf(i) == {k \in 1..Len(chart.bars) : chart.bars[k].rec = i}
MarkersOf(i) == {k \in 1..Len(chart.markers) : chart.markers[k].rec = i}

\* C4 (as stated): every record with Start = End is drawn as a vertical
\* marker at its month and never as a bar, every marker belongs to a
\* milestone, and no bar has width 0.
C4_ZeroDurationIsMarker ==
    pc = "returned" =>
        /\ \A i \in 1..Len(data) :
              data[i][ColStart].n = data[i][ColEnd].n =>
                  /\ BarsOf(i) = {}
                  /\ \E k \in MarkersOf(i) : chart.markers[k].x = data[i][ColStart].n
        /\ \A k \in 1..Len(chart.markers) : IsType(data[chart.markers[k].rec], MilestoneStr)
        /\ \A k \in 1..Len(chart.bars) : chart.bars[k].width # 0

\* C4 (amended): every record of Type "Milestone" is drawn as exactly one
\* vertical marker at its Start month and never as a bar, every marker
\* belongs to a record of Type "Milestone", and a record of Type "Task" is
\* drawn as one bar of width End - Start, also when that width is 0.
C4_MilestoneTypeIsMarker ==
    pc = "returned" =>
        /\ \A i \in 1..Len(data) :
              IsType(data[i], MilestoneStr) =>
                  /\ BarsOf(i) = {}
                  /\ Cardinality(MarkersOf(i)) = 1
                  /\ \A k \in MarkersOf(i) : chart.markers[k].x = data[i][ColStart].n
        /\ \A k \in 1..Len(chart.markers) : IsType(data[chart.markers[k].rec], MilestoneStr)
        /\ \A i \in 1..Len(data) :
              IsType(data[i], TaskStr) =>
                  /\ MarkersOf(i) = {}
                  /\ Cardinality(BarsOf(i)) = 1
                  /\ \A k \in BarsOf(i) :
                        chart.bars[k].width = data[i][ColEnd].n - data[i][ColStart].n

\* C4 witness: a chart with a zero-duration Task drawn as a bar of width 0
\* beside a zero-duration Milestone and a Milestone with Start # End.
C4_Witness ==
    /\ pc = "returned"
    /\ \E i \in 1..Len(data) :
          /\ IsType(data[i], TaskStr) /\ data[i][ColStart].n = data[i][ColEnd].n
          /\ \E k \in BarsOf(i) : chart.bars[k].width = 0
    /\ \E i \in 1..Len(data) :
          /\ IsType(data[i], MilestoneStr) /\ data[i][ColStart].n = data[i][ColEnd].n
          /\ MarkersOf(i) # {}
    /\ \E i \in 1..Len(data) :
          /\ IsType(data[i], MilestoneStr) /\ data[i][ColStart].n # data[i][ColEnd].n
          /\ MarkersOf(i) # {}

RangesOf(wp) == {j \in 1..Len(chart.wp_y_ranges) : chart.wp_y_ranges[j].wp = wp}

RowsOfWp(wp) ==
    {chart.bars[k].y : k \in {b \in 1..Len(chart.bars) :
                                 Cell(data[chart.bars[b].rec], ColWP) = wp}}

\* C5: the bars of one work package share one colour and fill one
\* contiguous band of rows, wp_y_ranges[wp] holds exactly the rows of that
\* work package's tasks, and the ranges of two work packages are disjoint,
\* in whatever order the records come.
C5_WpBands ==
    pc = "returned" =>
        /\ \A a, b \in 1..Len(chart.bars) :
              Cell(data[chart.bars[a].rec], ColWP) = Cell(data[chart.bars[b].rec], ColWP)
                  => chart.bars[a].color = chart.bars[b].color
        /\ \A k \in 1..Len(chart.bars) :
              Cardinality(RangesOf(Cell(data[chart.bars[k].rec], ColWP))) = 1
        /\ \A j \in 1..Len(chart.wp_y_ranges) :
              RowsOfWp(chart.wp_y_ranges[j].wp)
                  = chart.wp_y_ranges[j].start_y .. chart.wp_y_ranges[j].end_y
        /\ \A i, j \in 1..Len(chart.wp_y_ranges) :
              i # j => \/ chart.wp_y_ranges[i].end_y < chart.wp_y_ranges[j].start_y
                       \/ chart.wp_y_ranges[j].end_y < chart.wp_y_ranges[i].start_y

\* C5 witness: the tasks of one work package are separated in the input by
\* a task of another, and the chart has a band of two rows and one of one.
C5_Witness ==
    /\ pc = "returned"
    /\ Len(data) = 3
    /\ \A i \in 1..3 : IsType(data[i], TaskStr)
    /\ data[1][ColWP] = data[3][ColWP] /\ data[1][ColWP] # data[2][ColWP]
    /\ Len(chart.wp_y_ranges) = 2
    /\ chart.wp_y_ranges[1].start_y = 0 /\ chart.wp_y_ranges[1].end_y = 1
    /\ chart.wp_y_ranges[2].start_y = 2 /\ chart.wp_y_ranges[2].end_y = 2

\* C6 (as stated): two milestones whose months differ by less than 4 never
\* get labels at the same vertical offset.
C6_CloseLabelsDiffer ==
    pc = "returned" =>
        \A j, k \in 1..Len(chart.labels) :
            (j < k /\ Abs(chart.labels[j].x - chart.labels[k].x) < 4)
                => chart.labels[j].y2 # chart.labels[k].y2

\* the identifier of a work package label: the part before ": "
RECURSIVE WpId(_)
WpId(label) ==
    IF Len(label) < 2 THEN label
    ELSE IF label[1] = ":" /\ label[2] = " " THEN <<>>
    ELSE <<Head(label)>> \o WpId(Tail(label))

\* the colours of the work packages the identifiers of a cell name, in the
\* listed order; an identifier naming no work package of the data adds none
NamedColors(d, cell) ==
    LET pieces == SplitComma(ToStr(cell))
        colors == WpColors(d)
        named(id) == SelectSeq(colors, LAMBDA e : WpId(e.wp.s) = id)
    IN ConcatAll([k \in 1..Len(pieces) |->
           IF named(Strip(pieces[k])) = <<>> THEN <<>>
           ELSE <<Head(named(Strip(pieces[k]))).color>>])

\* C7 (as stated): the marker of a milestone whose Related WPs names one
\* work package of the data is one line in that work package's colour; if
\* it names several, lines cycling through their colours in the listed
\* order; without a Related WPs value, or if no identifier names a work
\* package, one gray line.
C7_MarkerColours ==
    pc = "returned" =>
        \A k \in 1..Len(chart.markers) :
            LET item == data[chart.markers[k].rec]
                lines == chart.markers[k].lines
                named == IF ColRelated \in DOMAIN item /\ NotNa(item[ColRelated])
                         THEN NamedColors(data, item[ColRelated])
                         ELSE <<>>
            IN IF named = <<>> THEN lines = <<Gray>>
               ELSE IF Len(named) = 1 THEN lines = named
               ELSE /\ Len(lines) > Len(named)
                    /\ \A j \in 1..Len(lines) :
                          lines[j] = named[((j - 1) % Len(named)) + 1]

----------------------------------------------------------------------------
(* csv_to_yaml.py *)

CsvNumber == "Task Number"
CsvName == "Task Name"
CsvStart == "Task Start Month"
CsvEnd == "Task End Month"
CsvWP == "Work Package"

csv_required_columns == {CsvNumber, CsvName, CsvStart, CsvEnd, CsvWP}

MsNumber == "Milestone number"
MsName == "Milestone name"
MsDue == "Due date (in month)"
MsRelated == "Related WP(s)"

ms_required_columns == {MsNumber, MsName, MsDue}

DefaultWP == <<"W", "P", "1", ":", " ", "D", "e", "f", "a", "u", "l", "t">>

\* f"{a.strip()} - {b.strip()}"
JoinName(a, b) == Strip(a) \o <<" ", "-", " ">> \o Strip(b)

\* int(cell) and .strip() raise on a cell of another type
RowRaises(row) ==
    \/ row[CsvStart].t # "int"
    \/ row[CsvEnd].t # "int"
    \/ NotNa(row[CsvWP]) /\ row[CsvWP].t # "str"
    \/ row[CsvNumber].t # "str"
    \/ row[CsvName].t # "str"

\* the Type of a record: the default type unless the months are equal
TypeAlwaysDefault(start_month, end_month, task_type) == task_type

TypeOf(start_month, end_month, task_type) ==
    IF start_month # end_month THEN task_type ELSE MilestoneStr

\* the dict built from one row of the tasks CSV
TaskOfRow(row, task_type) ==
    Rec(PyStr(JoinName(row[CsvNumber].s, row[CsvName].s)),
        PyStr(IF NotNa(row[CsvWP]) THEN Strip(row[CsvWP].s) ELSE DefaultWP),
        PyInt(row[CsvStart].n),
        PyInt(row[CsvEnd].n),
        PyStr(TypeOf(row[CsvStart].n, row[CsvEnd].n, task_type)))

MsRowRaises(row) ==
    \/ row[MsDue].t # "int"
    \/ row[MsNumber].t # "str"
    \/ row[MsName].t # "str"
    \/ MsRelated \in DOMAIN row /\ NotNa(row[MsRelated]) /\ row[MsRelated].t # "str"

\* the dict built from one row of the milestones CSV
MilestoneOfRow(row) ==
    LET base == Rec(PyStr(JoinName(row[MsNumber].s, row[MsName].s)),
                    PyStr(MilestonesStr),
                    PyInt(row[MsDue].n),
                    PyInt(row[MsDue].n),
                    PyStr(MilestoneStr))
    IN IF MsRelated \in DOMAIN row /\ NotNa(row[MsRelated])
       THEN With(base, ColRelated, PyStr(Strip(row[MsRelated].s)))
       ELSE base

----------------------------------------------------------------------------
(* YAML: yaml.dump of the task list and yaml.safe_load of the document *)

IsDigits(s) == s # <<>> /\ \A i \in 1..Len(s) : Ord(s[i]) \in 6..15

RECURSIVE StrToInt(_)
StrToInt(s) ==
    IF s = <<>> THEN 0 ELSE 10 * StrToInt(SubSeq(s, 1, Len(s) - 1)) + (Ord(s[Len(s)]) - 6)

YamlWords ==
    {<<"n", "u", "l", "l">>, <<"t", "r", "u", "e">>, <<"f", "a", "l", "s", "e">>,
     <<"y", "e", "s">>, <<"n", "o">>, <<"o", "n">>, <<"o", "f", "f">>}

\* a str the emitter cannot write as a plain scalar: it would be read back
\* as another type, or it is empty, has outer blanks or holds ": "
NeedsQuotes(s) ==
    \/ s = <<>>
    \/ IsDigits(s)
    \/ s \in YamlWords
    \/ Head(s) \in Whitespace \/ s[Len(s)] \in Whitespace
    \/ \E i \in 1..(Len(s) - 1) : s[i] = ":" /\ s[i + 1] = " "

\* the scalar yaml.dump writes for a value
DumpScalar(v) ==
    IF v.t = "int" THEN [style |-> "plain", text |-> IntToStr(v.n)]
    ELSE [style |-> IF NeedsQuotes(v.s) THEN "quoted" ELSE "plain", text |-> v.s]

\* the value yaml.safe_load reads from a scalar
LoadScalar(sc) ==
    IF sc.style = "quoted" THEN PyStr(sc.text)
    ELSE IF IsDigits(sc.text) THEN PyInt(StrToInt(sc.text))
    ELSE IF sc.text = <<>> \/ sc.text = <<"n", "u", "l", "l">> THEN NoneV
    ELSE IF sc.text \in YamlWords
    THEN PyBool(sc.text \in {<<"t", "r", "u", "e">>, <<"y", "e", "s">>, <<"o", "n">>})
    ELSE PyStr(sc.text)

DumpTasks(tasks) ==
    [i \in 1..Len(tasks) |-> [k \in DOMAIN tasks[i] |-> DumpScalar(tasks[i][k])]]

LoadTasks(doc) ==
    [i \in 1..Len(doc) |-> [k \in DOMAIN doc[i] |-> LoadScalar(doc[i][k])]]

\* load_from_yaml on a file yaml.dump wrote: the list under "tasks"
load_from_yaml(file) == LoadTasks(file.doc)

----------------------------------------------------------------------------
(* Inputs of the converter *)

CsvRow(num, name, start, end, wp) ==
    [k \in csv_required_columns |->
        CASE k = CsvNumber -> num
          [] k = CsvName -> name
          [] k = CsvStart -> start
          [] k = CsvEnd -> end
          [] OTHER -> wp]

\* rows as pd.read_csv parses them: an empty cell is NaN, a cell of blanks
\* stays a str
CsvRows ==
    {CsvRow(PyStr(<<" ", "T", "1">>), PyStr(<<"n", " ">>), PyInt(se[1]), PyInt(se[2]), w) :
        se \in {<<1, 1>>, <<1, 2>>, <<2, 1>>},
        w \in {PyStr(WP1A \o <<" ">>), PyStr(<<" ", " ">>), NaN}}
    \cup {CsvRow(PyStr(<<"T", "2">>), PyStr(<<"n">>), NaN, PyInt(2), PyStr(WP2C))}

File(state, columns, rows) == [state |-> state, columns |-> columns, rows |-> rows]

CsvFiles ==
    {File("ok", csv_required_columns, rows) : rows \in ListsUpTo(CsvRows, MaxCsvRows)}
    \cup {File("missing", {}, <<>>), File("unreadable", {}, <<>>),
          File("ok", csv_required_columns \ {CsvWP}, <<>>)}

MsRow(due, related) ==
    [k \in ms_required_columns \cup {MsRelated} |->
        CASE k = MsNumber -> PyStr(<<"M", "1", " ">>)
          [] k = MsName -> PyStr(<<"m">>)
          [] k = MsDue -> due
          [] OTHER -> related]

MsFiles ==
    {File("missing", {}, <<>>), File("unreadable", {}, <<>>),
     File("ok", ms_required_columns \ {MsDue}, <<>>),
     File("ok", ms_required_columns, <<>>),
     File("ok", ms_required_columns, <<Without(MsRow(PyInt(2), NaN), MsRelated)>>),
     File("ok", ms_required_columns \cup {MsRelated},
          <<MsRow(PyInt(2), NaN), MsRow(PyInt(3), PyStr(<<" ", "W", "P", "1">>))>>),
     File("ok", ms_required_columns \cup {MsRelated},
          <<MsRow(NaN, PyStr(<<"W", "P", "1">>))>>)}

NoFile == File("missing", {}, <<>>)

OutFile(kind, doc) == [kind |-> kind, doc |-> doc]

\* PyYAML installed or not, the output path writable or not, an older
\* output file present or not
ConvEnvs ==
    {[yaml_available |-> TRUE, writable |-> TRUE, out |-> OutFile("absent", <<>>)],
     [yaml_available |-> TRUE, writable |-> TRUE, out |-> OutFile("old", <<>>)],
     [yaml_available |-> FALSE, writable |-> TRUE, out |-> OutFile("absent", <<>>)],
     [yaml_available |-> TRUE, writable |-> FALSE, out |-> OutFile("old", <<>>)]}

InitConvert ==
    /\ pc = "main"
    /\ defined = {}
    /\ \E ty \in {TaskStr, MilestoneStr}, m \in BOOLEAN, env \in ConvEnvs,
          csv \in CsvFiles, ms \in MsFiles :
          /\ (~m => ms = NoFile)
          /\ args = [prog |-> "csv_to_yaml", task_type |-> ty, milestones |-> m,
                     yaml_available |-> env.yaml_available]
          /\ files = [csv |-> csv, ms |-> ms, out |-> env.out,
                      json |-> OutFile("absent", <<>>), writable |-> env.writable]
    /\ data = <<>>
    /\ accepted = NotRun
    /\ chart = NoChart
    /\ conv = NoConv
    /\ exitStatus = -1

----------------------------------------------------------------------------
(* csv_to_yaml.py: main and convert_csv_to_yaml, step by step *)

Exit(status) ==
    /\ pc' = "exit"
    /\ exitStatus' = status

\* main: the input file must exist
ConvMain ==
    /\ pc = "main"
    /\ args.prog = "csv_to_yaml"
    /\ IF files.csv.state = "missing"
       THEN Exit(1)
       ELSE pc' = "read_csv" /\ UNCHANGED exitStatus
    /\ UNCHANGED <<defined, args, files, data, accepted, chart, conv>>

\* pd.read_csv(csv_file)
ConvReadCsv ==
    /\ pc = "read_csv"
    /\ IF files.csv.state = "unreadable"
       THEN Exit(1) /\ UNCHANGED conv
       ELSE /\ pc' = "check_columns"
            /\ conv' = [run |-> TRUE, df |-> files.csv, tasks |-> <<>>]
            /\ UNCHANGED exitStatus
    /\ UNCHANGED <<defined, args, files, data, accepted, chart>>

\* the required columns of the tasks CSV
ConvCheckColumns ==
    /\ pc = "check_columns"
    /\ IF csv_required_columns \ conv.df.columns # {}
       THEN Exit(1)
       ELSE pc' = "convert_rows" /\ UNCHANGED exitStatus
    /\ UNCHANGED <<defined, args, files, data, accepted, chart, conv>>

\* the loop over df.iterrows(); an exception in a row ends the run
ConvertRows ==
    /\ pc = "convert_rows"
    /\ LET rows == conv.df.rows
       IN IF \E i \in 1..Len(rows) : RowRaises(rows[i])
          THEN Exit(1) /\ UNCHANGED conv
          ELSE /\ conv' = [conv EXCEPT !.tasks =
                              [i \in 1..Len(rows) |-> TaskOfRow(rows[i], args.task_type)]]
               /\ pc' = "milestones"
               /\ UNCHANGED exitStatus
    /\ UNCHANGED <<defined, args, files, data, accepted, chart>>

\* a load that goes on to the output when the milestones file is bad
ConvLoadMilestonesSkipBad ==
    /\ pc = "milestones"
    /\ IF ~args.milestones
       THEN pc' = "write" /\ UNCHANGED <<conv, exitStatus>>
       ELSE IF \/ files.ms.state # "ok"
               \/ ms_required_columns \ files.ms.columns # {}
               \/ \E i \in 1..Len(files.ms.rows) : MsRowRaises(files.ms.rows[i])
       THEN pc' = "write" /\ UNCHANGED <<conv, exitStatus>>
       ELSE /\ conv' = [conv EXCEPT !.tasks =
                           @ \o [i \in 1..Len(files.ms.rows) |->
                                    MilestoneOfRow(files.ms.rows[i])]]
            /\ pc' = "write"
            /\ UNCHANGED exitStatus
    /\ UNCHANGED <<defined, args, files, data, accepted, chart>>

\* a load that puts the milestones before the tasks
ConvLoadMilestonesFirst ==
    /\ pc = "milestones"
    /\ IF ~args.milestones
       THEN pc' = "write" /\ UNCHANGED <<conv, exitStatus>>
       ELSE IF \/ files.ms.state # "ok"
               \/ ms_required_columns \ files.ms.columns # {}
               \/ \E i \in 1..Len(files.ms.rows) : MsRowRaises(files.ms.rows[i])
       THEN Exit(1) /\ UNCHANGED conv
       ELSE /\ conv' = [conv EXCEPT !.tasks =
                           [i \in 1..Len(files.ms.rows) |->
                                    MilestoneOfRow(files.ms.rows[i])] \o @]
            /\ pc' = "write"
            /\ UNCHANGED exitStatus
    /\ UNCHANGED <<defined, args, files, data, accepted, chart>>

\* if milestones_file: load_milestones and tasks.extend
ConvLoadMilestones ==
    /\ pc = "milestones"
    /\ IF ~args.milestones
       THEN pc' = "write" /\ UNCHANGED <<conv, exitStatus>>
       ELSE IF \/ files.ms.state # "ok"
               \/ ms_required_columns \ files.ms.columns # {}
               \/ \E i \in 1..Len(files.ms.rows) : MsRowRaises(files.ms.rows[i])
       THEN Exit(1) /\ UNCHANGED conv
       ELSE /\ conv' = [conv EXCEPT !.tasks =
                           @ \o [i \in 1..Len(files.ms.rows) |->
                                    MilestoneOfRow(files.ms.rows[i])]]
            /\ pc' = "write"
            /\ UNCHANGED exitStatus
    /\ UNCHANGED <<defined, args, files, data, accepted, chart>>

\* yaml.dump to the output file, or json.dump to the .json path
ConvWrite ==
    /\ pc = "write"
    /\ IF ~files.writable
       THEN Exit(1) /\ UNCHANGED files
       ELSE /\ files' = IF args.yaml_available
                        THEN [files EXCEPT !.out = OutFile("yaml", DumpTasks(conv.tasks))]
                        ELSE [files EXCEPT !.json = OutFile("json", conv.tasks)]
            /\ pc' = "summary"
            /\ UNCHANGED exitStatus
    /\ UNCHANGED <<defined, args, data, accepted, chart, conv>>

\* the summary: min() and max() of an empty list raise
ConvSummary ==
    /\ pc = "summary"
    /\ pc' = "exit"
    /\ exitStatus' = IF conv.tasks = <<>> THEN 1 ELSE 0
    /\ UNCHANGED <<defined, args, files, data, accepted, chart, conv>>

\* gantt.py on the file the converter wrote: load_from_yaml, validate_data
RendererLoad ==
    /\ pc = "exit"
    /\ args.prog = "csv_to_yaml"
    /\ files.out.kind = "yaml"
    /\ data' = load_from_yaml(files.out)
    /\ accepted' = validate_data(load_from_yaml(files.out))
    /\ pc' = "rendered"
    /\ UNCHANGED <<defined, args, files, chart, conv, exitStatus>>

NextConvert ==
    \/ ConvMain
    \/ ConvReadCsv
    \/ ConvCheckColumns
    \/ ConvertRows
    \/ ConvLoadMilestones
    \/ ConvWrite
    \/ ConvSummary
    \/ RendererLoad

SpecConvert == InitConvert /\ [][NextConvert]_vars

----------------------------------------------------------------------------
(* Claims about the converter *)

RowsConverted == pc = "milestones" /\ args.prog = "csv_to_yaml"

\* C3 (as stated): for every row of the tasks CSV and every --task-type
\* value, the emitted Type is "Milestone" exactly when Task Start Month
\* equals Task End Month.
C3_MilestoneIffZeroDuration ==
    RowsConverted =>
        \A i \in 1..Len(conv.tasks) :
            (conv.tasks[i][ColType] = PyStr(MilestoneStr))
                <=> (conv.df.rows[i][CsvStart].n = conv.df.rows[i][CsvEnd].n)

\* C3 (amended): the emitted Type is "Milestone" when Task Start Month
\* equals Task End Month and the --task-type value otherwise; with the
\* default --task-type "Task" it is "Milestone" exactly when they are equal.
C3_TypeIsDefaultUnlessZeroDuration ==
    RowsConverted =>
        /\ Len(conv.tasks) = Len(conv.df.rows)
        /\ \A i \in 1..Len(conv.tasks) :
              /\ conv.df.rows[i][CsvStart].n = conv.df.rows[i][CsvEnd].n
                    => conv.tasks[i][ColType] = PyStr(MilestoneStr)
              /\ conv.df.rows[i][CsvStart].n # conv.df.rows[i][CsvEnd].n
                    => conv.tasks[i][ColType] = PyStr(args.task_type)
              /\ args.task_type = TaskStr =>
                    ((conv.tasks[i][ColType] = PyStr(MilestoneStr))
                        <=> (conv.df.rows[i][CsvStart].n = conv.df.rows[i][CsvEnd].n))

\* C3 witness: with --task-type Milestone, a row with equal months and a row
\* with different months have both been emitted as "Milestone".
C3_Witness ==
    /\ RowsConverted
    /\ args.task_type = MilestoneStr
    /\ \E i, j \in 1..Len(conv.tasks) :
          /\ conv.df.rows[i][CsvStart].n = conv.df.rows[i][CsvEnd].n
          /\ conv.df.rows[j][CsvStart].n # conv.df.rows[j][CsvEnd].n
          /\ conv.tasks[i][ColType] = PyStr(MilestoneStr)
          /\ conv.tasks[j][ColType] = PyStr(MilestoneStr)

\* C9 (as stated): whenever the converter has written a YAML file,
\* load_from_yaml returns the emitted task list unchanged and validate_data
\* accepts it.
C9_OutputAcceptedByRenderer ==
    pc = "rendered" => (data = conv.tasks /\ accepted.ok)

\* the YAML round trip alone: load_from_yaml returns the emitted list
RoundTripInv == pc = "rendered" => data = conv.tasks

\* the records the converter emits have Start <= End
ConvStartLeEndInv ==
    (args.prog = "csv_to_yaml" /\ conv.run) =>
        \A i \in 1..Len(conv.tasks) : conv.tasks[i][ColStart].n <= conv.tasks[i][ColEnd].n

----------------------------------------------------------------------------
(* gantt.py run as a script: the module body, statement by statement *)

\* the hardcoded sample project
sample_data ==
    <<
      Rec(PyStr(<<"R", "e", "q", "u", "i", "r", "e", "m", "e", "n", "t", "s", " ", "A", "n", "a", "l", "y", "s", "i", "s">>),
          PyStr(<<"W", "P", "1", ":", " ", "S", "y", "s", "t", "e", "m", " ", "D", "e", "s", "i", "g", "n">>), PyInt(1), PyInt(1), PyStr(TaskStr)),
      Rec(PyStr(<<"A", "r", "c", "h", "i", "t", "e", "c", "t", "u", "r", "e", " ", "D", "e", "s", "i", "g", "n">>),
          PyStr(<<"W", "P", "1", ":", " ", "S", "y", "s", "t", "e", "m", " ", "D", "e", "s", "i", "g", "n">>), PyInt(2), PyInt(2), PyStr(TaskStr)),
      Rec(PyStr(<<"D", "e", "s", "i", "g", "n", " ", "R", "e", "v", "i", "e", "w">>),
          PyStr(<<"W", "P", "1", ":", " ", "S", "y", "s", "t", "e", "m", " ", "D", "e", "s", "i", "g", "n">>), PyInt(3), PyInt(3), PyStr(TaskStr)),
      Rec(PyStr(<<"D", "e", "s", "i", "g", "n", " ", "C", "o", "m", "p", "l", "e", "t", "e">>),
          PyStr(<<"W", "P", "1", ":", " ", "S", "y", "s", "t", "e", "m", " ", "D", "e", "s", "i", "g", "n">>), PyInt(3), PyInt(3), PyStr(MilestoneStr)),
      Rec(PyStr(<<"U", "I", " ", "F", "r", "a", "m", "e", "w", "o", "r", "k", " ", "S", "e", "t", "u", "p">>),
          PyStr(<<"W", "P", "2", ":", " ", "F", "r", "o", "n", "t", "e", "n", "d", " ", "D", "e", "v">>), PyInt(2), PyInt(3), PyStr(TaskStr)),
      Rec(PyStr(<<"C", "o", "m", "p", "o", "n", "e", "n", "t", " ", "D", "e", "v", "e", "l", "o", "p", "m", "e", "n", "t">>),
          PyStr(<<"W", "P", "2", ":", " ", "F", "r", "o", "n", "t", "e", "n", "d", " ", "D", "e", "v">>), PyInt(3), PyInt(5), PyStr(TaskStr)),
      Rec(PyStr(<<"U", "I", " ", "I", "n", "t", "e", "g", "r", "a", "t", "i", "o", "n">>),
          PyStr(<<"W", "P", "2", ":", " ", "F", "r", "o", "n", "t", "e", "n", "d", " ", "D", "e", "v">>), PyInt(5), PyInt(6), PyStr(TaskStr)),
      Rec(PyStr(<<"F", "r", "o", "n", "t", "e", "n", "d", " ", "A", "l", "p", "h", "a">>),
          PyStr(<<"W", "P", "2", ":", " ", "F", "r", "o", "n", "t", "e", "n", "d", " ", "D", "e", "v">>), PyInt(6), PyInt(6), PyStr(MilestoneStr)),
      Rec(PyStr(<<"D", "a", "t", "a", "b", "a", "s", "e", " ", "S", "e", "t", "u", "p">>),
          PyStr(<<"W", "P", "3", ":", " ", "B", "a", "c", "k", "e", "n", "d", " ", "D", "e", "v">>), PyInt(2), PyInt(3), PyStr(TaskStr)),
      Rec(PyStr(<<"A", "P", "I", " ", "D", "e", "v", "e", "l", "o", "p", "m", "e", "n", "t">>),
          PyStr(<<"W", "P", "3", ":", " ", "B", "a", "c", "k", "e", "n", "d", " ", "D", "e", "v">>), PyInt(3), PyInt(5), PyStr(TaskStr)),
      Rec(PyStr(<<"S", "e", "r", "v", "i", "c", "e", " ", "I", "n", "t", "e", "g", "r", "a", "t", "i", "o", "n">>),
          PyStr(<<"W", "P", "3", ":", " ", "B", "a", "c", "k", "e", "n", "d", " ", "D", "e", "v">>), PyInt(5), PyInt(6), PyStr(TaskStr)),
      Rec(PyStr(<<"B", "a", "c", "k", "e", "n", "d", " ", "A", "l", "p", "h", "a">>),
          PyStr(<<"W", "P", "3", ":", " ", "B", "a", "c", "k", "e", "n", "d", " ", "D", "e", "v">>), PyInt(6), PyInt(6), PyStr(MilestoneStr)),
      Rec(PyStr(<<"U", "n", "i", "t", " ", "T", "e", "s", "t", "i", "n", "g">>),
          PyStr(<<"W", "P", "4", ":", " ", "T", "e", "s", "t", "i", "n", "g">>), PyInt(3), PyInt(4), PyStr(TaskStr)),
      Rec(PyStr(<<"I", "n", "t", "e", "g", "r", "a", "t", "i", "o", "n", " ", "T", "e", "s", "t", "i", "n", "g">>),
          PyStr(<<"W", "P", "4", ":", " ", "T", "e", "s", "t", "i", "n", "g">>), PyInt(4), PyInt(5), PyStr(TaskStr)),
      Rec(PyStr(<<"P", "e", "r", "f", "o", "r", "m", "a", "n", "c", "e", " ", "T", "e", "s", "t", "i", "n", "g">>),
          PyStr(<<"W", "P", "4", ":", " ", "T", "e", "s", "t", "i", "n", "g">>), PyInt(5), PyInt(6), PyStr(TaskStr)),
      Rec(PyStr(<<"T", "e", "s", "t", "i", "n", "g", " ", "C", "o", "m", "p", "l", "e", "t", "e">>),
          PyStr(<<"W", "P", "4", ":", " ", "T", "e", "s", "t", "i", "n", "g">>), PyInt(6), PyInt(6), PyStr(MilestoneStr)),
      Rec(PyStr(<<"E", "n", "v", "i", "r", "o", "n", "m", "e", "n", "t", " ", "S", "e", "t", "u", "p">>),
          PyStr(<<"W", "P", "5", ":", " ", "D", "e", "p", "l", "o", "y", "m", "e", "n", "t">>), PyInt(4), PyInt(5), PyStr(TaskStr)),
      Rec(PyStr(<<"P", "r", "o", "d", "u", "c", "t", "i", "o", "n", " ", "D", "e", "p", "l", "o", "y", "m", "e", "n", "t">>),
          PyStr(<<"W", "P", "5", ":", " ", "D", "e", "p", "l", "o", "y", "m", "e", "n", "t">>), PyInt(5), PyInt(6), PyStr(TaskStr)),
      Rec(PyStr(<<"G", "o", "-", "L", "i", "v", "e">>),
          PyStr(<<"W", "P", "5", ":", " ", "D", "e", "p", "l", "o", "y", "m", "e", "n", "t">>), PyInt(6), PyInt(6), PyStr(MilestoneStr)),
      Rec(PyStr(<<"U", "s", "e", "r", " ", "D", "o", "c", "u", "m", "e", "n", "t", "a", "t", "i", "o", "n">>),
          PyStr(<<"W", "P", "6", ":", " ", "D", "o", "c", "u", "m", "e", "n", "t", "a", "t", "i", "o", "n">>), PyInt(3), PyInt(4), PyStr(TaskStr)),
      Rec(PyStr(<<"T", "e", "c", "h", "n", "i", "c", "a", "l", " ", "D", "o", "c", "u", "m", "e", "n", "t", "a", "t", "i", "o", "n">>),
          PyStr(<<"W", "P", "6", ":", " ", "D", "o", "c", "u", "m", "e", "n", "t", "a", "t", "i", "o", "n">>), PyInt(4), PyInt(5), PyStr(TaskStr)),
      Rec(PyStr(<<"T", "r", "a", "i", "n", "i", "n", "g", " ", "M", "a", "t", "e", "r", "i", "a", "l", "s">>),
          PyStr(<<"W", "P", "6", ":", " ", "D", "o", "c", "u", "m", "e", "n", "t", "a", "t", "i", "o", "n">>), PyInt(5), PyInt(6), PyStr(TaskStr)),
      Rec(PyStr(<<"D", "o", "c", "u", "m", "e", "n", "t", "a", "t", "i", "o", "n", " ", "C", "o", "m", "p", "l", "e", "t", "e">>),
          PyStr(<<"W", "P", "6", ":", " ", "D", "o", "c", "u", "m", "e", "n", "t", "a", "t", "i", "o", "n">>), PyInt(6), PyInt(6), PyStr(MilestoneStr))
    >>

\* the statements of the module that bind a name, and the main block, in
\* the order of the file
ModuleBody ==
    <<"create_gantt_chart", "sample_data", "parse_arguments", "validate_data",
      "load_from_yaml", "__main__", "load_from_csv", "load_from_excel">>

\* the statements not yet executed, in order
Pending == SelectSeq(ModuleBody, LAMBDA n : n \notin defined)

\* Start or End cells that are not numbers make the Duration column raise
ChartRaises(d) ==
    \E i \in 1..Len(d) : Cell(d[i], ColStart).t # "int" \/ Cell(d[i], ColEnd).t # "int"

\* the lists found in the input files
DataFiles ==
    {<<>>,
     <<NotADict>>,
     <<ValBase(1, 2)>>,
     <<ValBase(2, 1)>>,
     <<PlainMilestone>>,
     <<Without(ValBase(1, 2), ColEnd)>>,
     <<ValBase(1, 2), With(ValBase(1, 2), ColTask, PyStr(<<" ">>))>>,
     <<With(ValBase(1, 2), ColStart, PyList(1))>>,
     <<WpTask(WP10B), WpTask(WP1A), With(PlainMilestone, ColRelated, PyStr(<<"W", "P", "1">>))>>}

Sources == {"csv", "excel", "yaml", "none"}

Input(state, rows) == [state |-> state, rows |-> rows]

Init ==
    /\ pc = "module"
    /\ defined = {}
    /\ \E src \in Sources, out \in BOOLEAN, nd \in BOOLEAN, ya \in BOOLEAN :
          args = [prog |-> "gantt", source |-> src, output |-> out,
                  no_display |-> nd, yaml_available |-> ya]
    /\ \E st \in {"missing", "malformed", "ok"}, d \in DataFiles :
          /\ (st # "ok" => d = <<>>)
          /\ files = [input |-> Input(st, d), image |-> FALSE]
    /\ data = <<>>
    /\ accepted = NotRun
    /\ chart = NoChart
    /\ conv = NoConv
    /\ exitStatus = -1

\* a def statement or the sample_data assignment binds its name
ExecDef ==
    /\ pc = "module"
    /\ Pending # <<>>
    /\ Head(Pending) # "__main__"
    /\ defined' = defined \cup {Head(Pending)}
    /\ UNCHANGED <<pc, args, files, data, accepted, chart, conv, exitStatus>>

\* if __name__ == "__main__": args = parse_arguments(); data = None
EnterMain ==
    /\ pc = "module"
    /\ Pending # <<>>
    /\ Head(Pending) = "__main__"
    /\ defined' = defined \cup {"__main__"}
    /\ pc' = "load"
    /\ UNCHANGED <<args, files, data, accepted, chart, conv, exitStatus>>

\* the name of the loader each option calls
Loader(src) ==
    CASE src = "csv" -> "load_from_csv"
      [] src = "excel" -> "load_from_excel"
      [] OTHER -> "load_from_yaml"

\* "ok": the loader returned; "exit": sys.exit(1); "raise": an exception
LoadOutcome ==
    IF args.source = "none"
    THEN IF args.yaml_available /\ files.input.state = "malformed" THEN "raise" ELSE "ok"
    ELSE IF args.source = "yaml" /\ ~args.yaml_available THEN "exit"
    ELSE IF files.input.state = "missing" THEN "exit"
    ELSE IF Loader(args.source) \notin defined THEN "raise"
    ELSE IF files.input.state = "malformed" THEN "raise"
    ELSE "ok"

\* without an option: sample_data.yaml if PyYAML and the file are there,
\* else the hardcoded sample_data
LoadedData ==
    IF args.source = "none" /\ (~args.yaml_available \/ files.input.state = "missing")
    THEN sample_data
    ELSE files.input.rows

\* the loading part of the try block
MainLoad ==
    /\ pc = "load"
    /\ IF LoadOutcome = "exit" THEN Exit(1) /\ UNCHANGED data
       ELSE IF LoadOutcome = "raise"
       THEN pc' = "except" /\ UNCHANGED <<data, exitStatus>>
       ELSE pc' = "validate" /\ data' = LoadedData /\ UNCHANGED exitStatus
    /\ UNCHANGED <<defined, args, files, accepted, chart, conv>>

\* validate_data(data), which always runs and skips the chart on an error
MainValidateAnyway ==
    /\ pc = "validate"
    /\ accepted' = validate_data(data)
    /\ pc' = "chart"
    /\ UNCHANGED <<defined, args, files, data, chart, conv, exitStatus>>

\* validate_data(data)
MainValidate ==
    /\ pc = "validate"
    /\ accepted' = validate_data(data)
    /\ pc' = IF validate_data(data).ok THEN "chart" ELSE "except"
    /\ UNCHANGED <<defined, args, files, data, chart, conv, exitStatus>>

\* fig, ax = create_gantt_chart(data, args.title)
MainChart ==
    /\ pc = "chart"
    /\ IF ChartRaises(data)
       THEN pc' = "except" /\ UNCHANGED chart
       ELSE pc' = "save" /\ chart' = create_gantt_chart(data)
    /\ UNCHANGED <<defined, args, files, data, accepted, conv, exitStatus>>

\* plt.savefig if an output file is given
MainSave ==
    /\ pc = "save"
    /\ files' = [files EXCEPT !.image = args.output]
    /\ pc' = "show"
    /\ UNCHANGED <<defined, args, data, accepted, chart, conv, exitStatus>>

\* plt.show() unless --no-display, then the summary; the module body goes on
MainShow ==
    /\ pc = "show"
    /\ pc' = "module"
    /\ UNCHANGED <<defined, args, files, data, accepted, chart, conv, exitStatus>>

\* except Exception as e: print, sys.exit(1)
MainExcept ==
    /\ pc = "except"
    /\ Exit(1)
    /\ UNCHANGED <<defined, args, files, data, accepted, chart, conv>>

\* the end of the module body
ModuleEnd ==
    /\ pc = "module"
    /\ Pending = <<>>
    /\ Exit(0)
    /\ UNCHANGED <<defined, args, files, data, accepted, chart, conv>>

Next ==
    \/ ExecDef
    \/ EnterMain
    \/ MainLoad
    \/ MainValidate
    \/ MainChart
    \/ MainSave
    \/ MainShow
    \/ MainExcept
    \/ ModuleEnd

Spec == Init /\ [][Next]_vars

----------------------------------------------------------------------------
(* Claims about the script run *)

WellFormedInput ==
    /\ files.input.state = "ok"
    /\ validate_data(files.input.rows).ok
    /\ ~ChartRaises(files.input.rows)

\* C8 (as stated): a run with -c or -x on an existing, well-formed file
\* loads the data of that file, validates it, draws the chart and ends
\* without an error exit: the loader is bound when the main block calls it.
C8_TableFileRunSucceeds ==
    /\ (pc = "load" /\ args.source \in {"csv", "excel"}) => Loader(args.source) \in defined
    /\ (pc = "exit" /\ args.source \in {"csv", "excel"} /\ WellFormedInput) =>
          /\ exitStatus = 0
          /\ data = files.input.rows
          /\ accepted.ok
          /\ chart.drawn

\* C10: the chart is laid out only from data validate_data has accepted,
\* the image is written only after the layout, and a run in which loading or
\* validation fails ends with exit status 1, no chart and no image.
C10_LinearPipeline ==
    /\ pc \in {"chart", "save", "show"} => accepted.ok
    /\ chart.drawn => (accepted.ok /\ accepted = validate_data(data))
    /\ files.image => chart.drawn
    /\ (pc = "exit" /\ ~accepted.ok) =>
          (exitStatus = 1 /\ ~files.image /\ ~chart.drawn)

\* C10 witness: one run has gone through load, validate, layout and save
\* and ended with status 0.
C10_Witness ==
    /\ pc = "exit"
    /\ exitStatus = 0
    /\ args.source = "yaml"
    /\ data = files.input.rows
    /\ accepted.ok
    /\ chart.drawn
    /\ files.image

----------------------------------------------------------------------------
(* Claims of the second part: text wrapping *)

\* the pieces of s between occurrences of the character c
RECURSIVE SplitOn(_, _)
SplitOn(s, c) ==
    IF \A i \in 1..Len(s) : s[i] # c
    THEN <<s>>
    ELSE LET i == CHOOSE k \in 1..Len(s) : s[k] = c /\ \A j \in 1..(k - 1) : s[j] # c
         IN <<SubSeq(s, 1, i - 1)>> \o SplitOn(SubSeq(s, i + 1, Len(s)), c)

\* C11: format_milestone_name returns a name of at most 20 characters
\* unchanged; for a longer name the words of the output are the words of the
\* input in the same order, and every output line is at most 20 characters
\* long unless it is one single word.
C11_WrapKeepsWords ==
    pc = "returned" =>
        \A k \in 1..Len(chart.labels) :
            LET name == chart.labels[k].name
                text == chart.labels[k].text
                lines == SplitOn(text, "\n")
            IN /\ Len(name) <= 20 => text = name
               /\ Len(name) > 20 =>
                     /\ SplitWords(text) = SplitWords(name)
                     /\ \A j \in 1..Len(lines) :
                           \/ Len(lines[j]) <= 20
                           \/ \A i \in 1..Len(lines[j]) : lines[j][i] \notin Whitespace

\* C11 witness: a name longer than 20 characters has been wrapped into a
\* line of exactly 20 characters, a line holding one word of 21 characters
\* and a third line.
C11_Witness ==
    /\ pc = "returned"
    /\ \E k \in 1..Len(chart.labels) :
          LET lines == SplitOn(chart.labels[k].text, "\n")
          IN /\ Len(chart.labels[k].name) > 20
             /\ Len(lines) = 3
             /\ Len(lines[1]) = 20 /\ Len(SplitWords(lines[1])) = 2
             /\ Len(lines[2]) = 21

----------------------------------------------------------------------------
(* Claims of the second part: rows, braces, labels *)

TaskRecords == {i \in 1..Len(data) : IsType(data[i], TaskStr)}

\* the first record, of any Type, that names the work package
FirstAppearance(wp) == CHOOSE i \in 1..Len(data) :
    Cell(data[i], ColWP) = wp /\ \A j \in 1..(i - 1) : Cell(data[j], ColWP) # wp

\* C12: with N records of Type "Task", each has exactly one bar, the bars
\* lie on the rows 0..N-1, one per row, the work packages follow each other
\* in the order of their first appearance in the input, the tasks of a work
\* package keep their input order, and the final y_pos is N.
C12_RowsAreABijection ==
    pc = "returned" =>
        /\ \A i \in TaskRecords : Cardinality(BarsOf(i)) = 1
        /\ \A k \in 1..Len(chart.bars) : chart.bars[k].rec \in TaskRecords
        /\ Len(chart.bars) = Cardinality(TaskRecords)
        /\ {chart.bars[k].y : k \in 1..Len(chart.bars)} = 0..(Cardinality(TaskRecords) - 1)
        /\ chart.y_pos = Cardinality(TaskRecords)
        /\ \A a, b \in 1..Len(chart.bars) :
              chart.bars[a].y < chart.bars[b].y =>
                  LET wa == Cell(data[chart.bars[a].rec], ColWP)
                      wb == Cell(data[chart.bars[b].rec], ColWP)
                  IN \/ FirstAppearance(wa) < FirstAppearance(wb)
                     \/ wa = wb /\ chart.bars[a].rec < chart.bars[b].rec

\* C12 witness: a work package first named by a milestone, then a task of
\* another work package, then a task of the first: the later task is on
\* row 0 and the earlier on row 1.
C12_Witness ==
    /\ pc = "returned"
    /\ Len(data) = 3
    /\ IsType(data[1], MilestoneStr) /\ IsType(data[2], TaskStr) /\ IsType(data[3], TaskStr)
    /\ data[1][ColWP] = data[3][ColWP] /\ data[1][ColWP] # data[2][ColWP]
    /\ Len(chart.bars) = 2
    /\ chart.bars[1].rec = 3 /\ chart.bars[1].y = 0
    /\ chart.bars[2].rec = 2 /\ chart.bars[2].y = 1
    /\ chart.y_pos = 2

WpsOfData == {Cell(data[i], ColWP) : i \in 1..Len(data)}

TaskRowsOfWp(wp) == {i \in TaskRecords : Cell(data[i], ColWP) = wp}

WpLabelsOf(wp) == {j \in 1..Len(chart.wp_labels) : chart.wp_labels[j].wp = wp}

\* the braces of two work packages do not overlap
BracesApart ==
    \A i, j \in 1..Len(chart.wp_labels) :
        (i # j /\ chart.wp_labels[i].brace /\ chart.wp_labels[j].brace) =>
            \/ chart.wp_labels[i].bottom10 < chart.wp_labels[j].top10
            \/ chart.wp_labels[j].bottom10 < chart.wp_labels[i].top10

InputFailure ==
    \/ files.csv.state # "ok"
    \/ csv_required_columns \ files.csv.columns # {}
    \/ /\ args.milestones
       /\ \/ files.ms.state # "ok"
          \/ ms_required_columns \ files.ms.columns # {}

OutputOpened == files.out.kind = "yaml" \/ files.json.kind = "json"

MsRowsGiven == IF args.milestones THEN files.ms.rows ELSE <<>>

\* C14: when the converter fails on its inputs the run ends with exit status
\* 1 and the output file is never opened, so an older output file is left as
\* it was; the output file is opened only after both inputs are converted.
C14_NoOutputOnInputFailure ==
    args.prog = "csv_to_yaml" =>
        /\ InputFailure =>
              /\ ~OutputOpened
              /\ files.out.kind \in {"absent", "old"}
              /\ pc \notin {"write", "summary", "rendered"}
              /\ pc = "exit" => exitStatus = 1
        /\ OutputOpened =>
              Len(conv.tasks) = Len(files.csv.rows) + Len(MsRowsGiven)

\* C14 witness: the tasks CSV was converted, the milestones file lacks a
\* column, and the run has ended with status 1 and the older output file.
C14_Witness ==
    /\ args.prog = "csv_to_yaml"
    /\ pc = "exit"
    /\ exitStatus = 1
    /\ conv.run /\ conv.tasks # <<>>
    /\ args.milestones
    /\ files.ms.state = "ok"
    /\ ms_required_columns \ files.ms.columns # {}
    /\ files.out.kind = "old"

ListEmitted == args.prog = "csv_to_yaml" /\ pc \in {"write", "summary", "rendered"}

\* C15: the emitted list is the records of the tasks CSV rows in file order,
\* then those of the milestones CSV rows in file order, one per row; a
\* milestones record has Type "Milestone", Work Package "Milestones" and
\* Start = End; a task row without Work Package gets "WP1: Default".
C15_TasksThenMilestones ==
    ListEmitted =>
        LET rows == conv.df.rows
            ms == MsRowsGiven
        IN /\ Len(conv.tasks) = Len(rows) + Len(ms)
           /\ \A i \in 1..Len(rows) :
                 /\ conv.tasks[i][ColTask] =
                       PyStr(JoinName(rows[i][CsvNumber].s, rows[i][CsvName].s))
                 /\ conv.tasks[i][ColStart] = rows[i][CsvStart]
                 /\ conv.tasks[i][ColEnd] = rows[i][CsvEnd]
                 /\ rows[i][CsvWP] = NaN => conv.tasks[i][ColWP] = PyStr(DefaultWP)
                 /\ rows[i][CsvWP] # NaN =>
                       conv.tasks[i][ColWP] = PyStr(Strip(rows[i][CsvWP].s))
           /\ \A j \in 1..Len(ms) :
                 LET t == conv.tasks[Len(rows) + j]
                 IN /\ t[ColTask] = PyStr(JoinName(ms[j][MsNumber].s, ms[j][MsName].s))
                    /\ t[ColType] = PyStr(MilestoneStr)
                    /\ t[ColWP] = PyStr(MilestonesStr)
                    /\ t[ColStart] = ms[j][MsDue]
                    /\ t[ColEnd] = t[ColStart]
           /\ files.out.kind = "yaml" => files.out.doc = DumpTasks(conv.tasks)
           /\ files.json.kind = "json" => files.json.doc = conv.tasks

\* C15 witness: two task rows, one of them without Work Package, and two
\* milestone rows have been written as four records.
C15_Witness ==
    /\ args.prog = "csv_to_yaml"
    /\ pc = "summary"
    /\ files.out.kind = "yaml"
    /\ Len(conv.df.rows) = 2
    /\ Len(MsRowsGiven) = 2
    /\ Len(conv.tasks) = 4
    /\ \E i \in 1..2 : conv.df.rows[i][CsvWP] = NaN /\ conv.tasks[i][ColWP] = PyStr(DefaultWP)
    /\ conv.tasks[4][ColType] = PyStr(MilestoneStr)

\* C16 (as stated): every milestone label lies in the space the chart
\* reserves above the task rows, between the top axis limit -4 and row 0:
\* -4 <= label_y < 0 (doubled: -8 <= y2 < 0).
C16_LabelsInReservedSpace ==
    pc = "returned" =>
        \A j \in 1..Len(chart.labels) :
            chart.labels[j].y2 >= -8 /\ chart.labels[j].y2 < 0

SingleIdentifier(cell) ==
    /\ cell.t = "str"
    /\ Len(SplitComma(cell.s)) = 1

\* the work packages of the data whose identifier is id
WpsNamed(d, id) == SelectSeq(WpColors(d), LAMBDA e : WpId(e.wp.s) = id)

\* C17 (as stated): a Related WPs identifier that equals the part before
\* ": " of exactly one work package label is drawn in that work package's
\* colour, whatever other work packages exist and in whatever order the
\* work packages first appear.
C17_IdentifierNamesItsWp ==
    pc = "returned" =>
        \A k \in 1..Len(chart.markers) :
            LET item == data[chart.markers[k].rec]
            IN (/\ ColRelated \in DOMAIN item
                /\ SingleIdentifier(item[ColRelated])
                /\ Len(WpsNamed(data, Strip(item[ColRelated].s))) = 1)
                   => chart.markers[k].lines =
                          <<WpsNamed(data, Strip(item[ColRelated].s))[1].color>>

\* C18 (as stated): every record of a list validate_data accepts is drawn
\* as exactly one bar or as exactly one marker with one label, whatever its
\* Type, so bars plus markers equal the number of records.
C18_EveryRecordDrawn ==
    (pc = "returned" /\ accepted.ok) =>
        /\ \A i \in 1..Len(data) :
              Cardinality(BarsOf(i)) + Cardinality(MarkersOf(i)) = 1
        /\ Len(chart.labels) = Len(chart.markers)
        /\ Len(chart.bars) + Len(chart.markers) = Len(data)

====
